---------------------------- MODULE Spec2Model ----------------------------
(***************************************************************************)
(* Model of src/utils.py of docker-py-revanced: the changelog aggregator   *)
(* (update_changelog, format_changelog, write_changelog_to_file), the      *)
(* patch-metadata store (save_patch_info), the response handler            *)
(* (handle_request_response), the mirror call (apkmirror_status_check) and *)
(* the Java gate (check_java, _check_version).                             *)
(*                                                                         *)
(* Text is a sequence of atoms.  A python dict is a sequence of            *)
(* [key, val] members in insertion order.  A JSON value is a record        *)
(* [kind, s, items].                                                       *)
(***************************************************************************)
EXTENDS Integers, Sequences, FiniteSets, TLC

VARIABLES
    changelogs,     \* utils.changelogs, the process-wide dict name -> entry
    changelog_md,   \* the file named by changelog_file
    updates_json,   \* the file named by updates_file
    last,           \* the last call: its name, arguments and outcome
    start,          \* history: updates_json as it was before the first call
    upserted,       \* history: per name, the record of its last successful save
    writers,        \* concurrent callers of save_patch_info: position and locals
    overlap,        \* history: a caller read while another was inside its call
    probe           \* the environment of check_java: what `java -version` does

vars == <<changelogs, changelog_md, updates_json, last, start, upserted,
          writers, overlap, probe>>

-----------------------------------------------------------------------------
(* Bounds of the model *)

\* how many distinct application versions a run may pass to save_patch_info
NumAppVersions == 2
\* how many distinct releases (tag names) a run may record
NumTagNames == 2

-----------------------------------------------------------------------------
(* python dict: insertion-ordered, one member per key *)

Member(k, v) == [key |-> k, val |-> v]

EmptyDict == <<>>

DictKeys(d) == {d[i].key : i \in DOMAIN d}

DictHas(d, k) == \E i \in DOMAIN d : d[i].key = k

\* d[k]; the caller checks DictHas first (a missing key is a KeyError)
DictGet(d, k) == d[CHOOSE i \in DOMAIN d : d[i].key = k].val

\* a dict that appends on every assignment, as a list of pairs would
DictSetAppend(d, k, v) == Append(d, Member(k, v))

\* d[k] = v: an existing key keeps its position, a new key goes last
DictSet(d, k, v) ==
    IF DictHas(d, k)
    THEN [i \in DOMAIN d |-> IF d[i].key = k THEN Member(k, v) ELSE d[i]]
    ELSE Append(d, Member(k, v))

DictValues(d) == [i \in DOMAIN d |-> d[i].val]

UniqueKeys(d) == \A i, j \in DOMAIN d : d[i].key = d[j].key => i = j

-----------------------------------------------------------------------------
(* files *)

Missing == [exists |-> FALSE, text |-> <<>>]

File(text) == [exists |-> TRUE, text |-> text]

-----------------------------------------------------------------------------
(* JSON: values, json.dumps, json.load *)

\* a token of JSON text: a quoted string literal, or raw text (punctuation,
\* whitespace, anything else)
Lit(s) == [q |-> TRUE, s |-> s]
Raw(s) == [q |-> FALSE, s |-> s]

Str(s) == [kind |-> "str", s |-> s, items |-> <<>>]
Obj(members) == [kind |-> "obj", s |-> "", items |-> members]
Arr(elements) == [kind |-> "arr", s |-> "", items |-> elements]
NoValue == [kind |-> "none", s |-> "", items |-> <<>>]

RECURSIVE DumpsValue(_)
RECURSIVE DumpsMembers(_, _)
RECURSIVE DumpsElements(_, _)

DumpsMembers(ms, i) ==
    IF i > Len(ms) THEN <<>>
    ELSE (IF i > 1 THEN <<Raw(",")>> ELSE <<>>)
         \o <<Lit(ms[i].key), Raw(":")>> \o DumpsValue(ms[i].val)
         \o DumpsMembers(ms, i + 1)

DumpsElements(es, i) ==
    IF i > Len(es) THEN <<>>
    ELSE (IF i > 1 THEN <<Raw(",")>> ELSE <<>>)
         \o DumpsValue(es[i]) \o DumpsElements(es, i + 1)

\* json.dumps(value, indent=4); indentation carries no content and is left out
DumpsValue(v) ==
    CASE v.kind = "str" -> <<Lit(v.s)>>
      [] v.kind = "obj" -> <<Raw("{")>> \o DumpsMembers(v.items, 1) \o <<Raw("}")>>
      [] v.kind = "arr" -> <<Raw("[")>> \o DumpsElements(v.items, 1) \o <<Raw("]")>>

Fail == [ok |-> FALSE, val |-> NoValue, next |-> 0]
Parsed(v, n) == [ok |-> TRUE, val |-> v, next |-> n]

IsRaw(t, i, s) == i <= Len(t) /\ t[i] = Raw(s)

RECURSIVE ParseValue(_, _)
RECURSIVE ParseMembers(_, _, _)
RECURSIVE ParseElements(_, _, _)

\* the members of an object after "{"; a repeated key keeps its first place
\* and takes the later value
ParseMembers(t, i, acc) ==
    IF ~(i + 1 <= Len(t) /\ t[i].q /\ t[i + 1] = Raw(":")) THEN Fail
    ELSE LET r == ParseValue(t, i + 2) IN
         IF ~r.ok THEN Fail
         ELSE LET acc2 == DictSet(acc, t[i].s, r.val) IN
              IF IsRaw(t, r.next, ",") THEN ParseMembers(t, r.next + 1, acc2)
              ELSE IF IsRaw(t, r.next, "}") THEN Parsed(Obj(acc2), r.next + 1)
              ELSE Fail

ParseElements(t, i, acc) ==
    LET r == ParseValue(t, i) IN
    IF ~r.ok THEN Fail
    ELSE IF IsRaw(t, r.next, ",") THEN ParseElements(t, r.next + 1, Append(acc, r.val))
    ELSE IF IsRaw(t, r.next, "]") THEN Parsed(Arr(Append(acc, r.val)), r.next + 1)
    ELSE Fail

ParseValue(t, i) ==
    IF i > Len(t) THEN Fail
    ELSE IF t[i].q THEN Parsed(Str(t[i].s), i + 1)
    ELSE IF t[i] = Raw("{") THEN
        IF IsRaw(t, i + 1, "}") THEN Parsed(Obj(<<>>), i + 2)
        ELSE ParseMembers(t, i + 1, <<>>)
    ELSE IF t[i] = Raw("[") THEN
        IF IsRaw(t, i + 1, "]") THEN Parsed(Arr(<<>>), i + 2)
        ELSE ParseElements(t, i + 1, <<>>)
    ELSE Fail

\* json.loads(text): one value, then nothing but whitespace; anything else is
\* a JSONDecodeError (ok = FALSE)
Loads(t) ==
    LET r == ParseValue(t, 1) IN
    IF r.ok /\ \A j \in r.next..Len(t) : t[j] = Raw("\n")
    THEN [ok |-> TRUE, val |-> r.val]
    ELSE [ok |-> FALSE, val |-> NoValue]

-----------------------------------------------------------------------------
(* inputs of the patch-metadata store *)

\* default_build: the applications of a run
Names == {"youtube", "youtube_music"}

VersionPool == <<"19.16.39", "19.17.41", "19.18.02", "19.19.10">>
AppVersions == {VersionPool[i] : i \in 1..NumAppVersions}
IntegrationsVersions == {"1.2.0", "1.3.0"}

\* the app objects a caller passes: app_name, app_version and the versions of
\* the four patching resources
Apps ==
    {[app_name |-> n, app_version |-> v,
      resource |-> [integrations |-> [version |-> iv],
                    patches |-> [version |-> "3.4.0"],
                    cli |-> [version |-> "5.0.0"],
                    patches_json |-> [version |-> "2.1.0"]]]
        : n \in Names, v \in AppVersions, iv \in IntegrationsVersions}

NoApp ==
    [app_name |-> "", app_version |-> "",
     resource |-> [integrations |-> [version |-> ""],
                   patches |-> [version |-> ""],
                   cli |-> [version |-> ""],
                   patches_json |-> [version |-> ""]]]

NewLine == <<Raw("\n")>>

\* a record an older release of the tool wrote: it holds a field that is no
\* longer written
LegacyRecord ==
    Obj(<<Member("version", Str("18.0.1")),
          Member("integrations_version", Str("0.9.0")),
          Member("patches_version", Str("2.0.0")),
          Member("cli_version", Str("4.0.0")),
          Member("patches_json_version", Str("1.0.0")),
          Member("ms_epoch_since_patched", Str("1700000000"))>>)

OtherRecord ==
    Obj(<<Member("version", Str("8.9.1")),
          Member("integrations_version", Str("1.2.0")),
          Member("patches_version", Str("3.4.0")),
          Member("cli_version", Str("5.0.0")),
          Member("patches_json_version", Str("2.1.0"))>>)

\* what updates.json may hold before the first call of a run
InitialUpdatesFiles ==
    { Missing,
      \* an empty file
      File(<<>>),
      \* a write that was cut short
      File(<<Raw("{"), Lit("youtube"), Raw(":")>>),
      \* two documents one after the other
      File(<<Raw("{"), Raw("}"), Raw("\n"), Raw("{"), Raw("}"), Raw("\n")>>),
      \* valid JSON that is no object
      File(<<Raw("["), Raw("]"), Raw("\n")>>),
      File(<<Lit("youtube"), Raw("\n")>>),
      \* the empty document
      File(DumpsValue(Obj(<<>>)) \o NewLine),
      \* documents of earlier runs
      File(DumpsValue(Obj(<<Member("youtube_music", LegacyRecord)>>)) \o NewLine),
      File(DumpsValue(Obj(<<Member("spotify", OtherRecord),
                            Member("youtube", LegacyRecord)>>)) \o NewLine),
      \* a document that repeats a key
      File(<<Raw("{"), Lit("youtube"), Raw(":")>> \o DumpsValue(LegacyRecord)
           \o <<Raw(","), Lit("youtube"), Raw(":")>> \o DumpsValue(OtherRecord)
           \o <<Raw("}"), Raw("\n")>>) }

-----------------------------------------------------------------------------
(* save_patch_info *)

\* an except clause that forgets FileNotFoundError
OldVersionNoMissing(file) ==
    IF ~file.exists
    THEN [how |-> "FileNotFoundError", caught |-> FALSE, val |-> NoValue]
    ELSE LET r == Loads(file.text) IN
         IF r.ok THEN [how |-> "loaded", caught |-> TRUE, val |-> r.val]
         ELSE [how |-> "JSONDecodeError", caught |-> TRUE, val |-> Obj(EmptyDict)]

\* the try block: open and json.load; a missing file and a decode error both
\* give the empty dict
OldVersion(file) ==
    IF ~file.exists
    THEN [how |-> "FileNotFoundError", caught |-> TRUE, val |-> Obj(EmptyDict)]
    ELSE LET r == Loads(file.text) IN
         IF r.ok THEN [how |-> "loaded", caught |-> TRUE, val |-> r.val]
         ELSE [how |-> "JSONDecodeError", caught |-> TRUE, val |-> Obj(EmptyDict)]

\* the dict literal of the assignment: the five values of the call
PatchInfo(app) ==
    Obj(<<Member("version", Str(app.app_version)),
          Member("integrations_version", Str(app.resource.integrations.version)),
          Member("patches_version", Str(app.resource.patches.version)),
          Member("cli_version", Str(app.resource.cli.version)),
          Member("patches_json_version", Str(app.resource.patches_json.version))>>)

\* an assignment that starts a fresh document and drops what was loaded
SetPatchInfoAlone(old_version, app) ==
    Obj(DictSet(EmptyDict, app.app_name, PatchInfo(app)))

\* an assignment that updates the fields of an existing record in place
SetPatchInfoMerge(old_version, app) ==
    LET new == PatchInfo(app).items
        old == IF DictHas(old_version.items, app.app_name)
                  /\ DictGet(old_version.items, app.app_name).kind = "obj"
               THEN DictGet(old_version.items, app.app_name).items
               ELSE EmptyDict
        RECURSIVE Update(_, _)
        Update(d, i) == IF i > Len(new) THEN d
                        ELSE Update(DictSet(d, new[i].key, new[i].val), i + 1)
    IN  Obj(DictSet(old_version.items, app.app_name, Obj(Update(old, 1))))

\* old_version[app.app_name] = {...}; old_version is a dict here
SetPatchInfo(old_version, app) ==
    Obj(DictSet(old_version.items, app.app_name, PatchInfo(app)))

\* a write that opens the file for appending
WriteTextAppend(file, text) == File(file.text \o text)

\* Path.write_text: the file holds the text and nothing else
WriteText(file, text) == File(text)

\* json.dumps(old_version, indent=4) + "\n"
Serialize(old_version) == DumpsValue(old_version) \o NewLine

\* the whole call on one file: [outcome, how, file]
SavePatchInfoOn(file, app) ==
    LET r == OldVersion(file) IN
    IF ~r.caught THEN [outcome |-> r.how, how |-> r.how, file |-> file]
    ELSE IF r.val.kind # "obj"
    THEN [outcome |-> "TypeError", how |-> r.how, file |-> file]
    ELSE [outcome |-> "ok", how |-> r.how,
          file |-> WriteText(file, Serialize(SetPatchInfo(r.val, app)))]

save_patch_info(app) ==
    LET res == SavePatchInfoOn(updates_json, app) IN
    /\ updates_json' = res.file
    /\ last' = [op |-> "save_patch_info", app |-> app, before |-> updates_json,
                again |-> (last.op = "save_patch_info" /\ last.app = app),
                how |-> res.how, outcome |-> res.outcome]
    /\ upserted' = IF res.outcome = "ok"
                   THEN [upserted EXCEPT ![app.app_name] = app]
                   ELSE upserted
    /\ UNCHANGED <<changelogs, changelog_md, start, writers, overlap, probe>>

NoCall == [op |-> "none"]
NoWriters == <<>>
NoProbe ==
    [installed |-> FALSE, returncode |-> 0, version |-> <<0, 0, 0>>, marker |-> FALSE,
     dated |-> FALSE, output |-> <<>>]

Init ==
    /\ updates_json \in InitialUpdatesFiles
    /\ start = updates_json
    /\ upserted = [n \in Names |-> NoApp]
    /\ last = NoCall
    /\ changelogs = EmptyDict
    /\ changelog_md = Missing
    /\ writers = NoWriters
    /\ overlap = FALSE
    /\ probe = NoProbe

Next == \E app \in Apps : save_patch_info(app)

Spec == Init /\ [][Next]_vars

-----------------------------------------------------------------------------
(* Properties of the patch-metadata store, one writer (Spec) *)

\* rec is exactly the five values of the call that passed app
IsRecordOf(rec, app) ==
    /\ rec.kind = "obj"
    /\ Len(rec.items) = 5
    /\ DictKeys(rec.items) = {"version", "integrations_version", "patches_version",
                              "cli_version", "patches_json_version"}
    /\ DictGet(rec.items, "version") = Str(app.app_version)
    /\ DictGet(rec.items, "integrations_version") = Str(app.resource.integrations.version)
    /\ DictGet(rec.items, "patches_version") = Str(app.resource.patches.version)
    /\ DictGet(rec.items, "cli_version") = Str(app.resource.cli.version)
    /\ DictGet(rec.items, "patches_json_version") = Str(app.resource.patches_json.version)

\* the file is missing or holds a JSON object
Usable(file) ==
    ~file.exists \/ (Loads(file.text).ok /\ Loads(file.text).val.kind = "obj")

\* the file is missing or holds text that is no JSON
Unreadable(file) == ~file.exists \/ ~Loads(file.text).ok

\* C2: starting from a missing file or a file that holds a JSON object, after
\* every call of save_patch_info the call has succeeded and the file parses
\* to a mapping with one member per name, whose names are those of the
\* starting file and those saved so far; a saved name maps to exactly the
\* five values of its latest call and every other name to its starting record.
C2_UpsertKeepsEveryRecord ==
    LET startDoc == IF start.exists THEN Loads(start.text).val.items ELSE EmptyDict
        now == Loads(updates_json.text)
        doc == now.val.items
        saved == {n \in Names : upserted[n] # NoApp}
    IN  (Usable(start) /\ last.op = "save_patch_info") =>
            /\ last.outcome = "ok"
            /\ updates_json.exists /\ now.ok /\ now.val.kind = "obj"
            /\ UniqueKeys(doc)
            /\ DictKeys(doc) = DictKeys(startDoc) \cup saved
            /\ upserted[last.app.app_name] = last.app
            /\ \A k \in DictKeys(doc) :
                 IF k \in saved
                 THEN IsRecordOf(DictGet(doc, k), upserted[k])
                 ELSE DictGet(doc, k) = DictGet(startDoc, k)

\* both applications were saved over a document that held another
\* application and an older, larger record of one of the two
C2_Witness ==
    /\ last.op = "save_patch_info" /\ last.outcome = "ok"
    /\ start.exists /\ Loads(start.text).ok
    /\ DictKeys(Loads(start.text).val.items) = {"spotify", "youtube"}
    /\ \A n \in Names : upserted[n] # NoApp
    /\ Len(Loads(updates_json.text).val.items) = 3

Content(file) ==
    IF ~file.exists THEN [state |-> "missing", val |-> NoValue]
    ELSE IF ~Loads(file.text).ok THEN [state |-> "invalid", val |-> NoValue]
    ELSE [state |-> "parsed", val |-> Loads(file.text).val]

\* C5: a call of save_patch_info that repeats the arguments of the call
\* before it leaves the parsed content of the file as that call left it.
C5_UpsertIdempotent ==
    (last.op = "save_patch_info" /\ last.again) =>
        Content(updates_json) = Content(last.before)

\* a successful call was repeated with the same arguments
C5_Witness ==
    /\ last.op = "save_patch_info" /\ last.again /\ last.outcome = "ok"
    /\ Len(Loads(updates_json.text).val.items) >= 2

-----------------------------------------------------------------------------
(* The changelog aggregator.  A string is a sequence of atoms; the atoms of *)
(* a release body are its characters.                                      *)

RECURSIVE Replace(_, _, _)
\* str.replace(old, new): leftmost occurrences, left to right, not overlapping
Replace(s, old, new) ==
    IF Len(s) < Len(old) THEN s
    ELSE IF SubSeq(s, 1, Len(old)) = old
    THEN new \o Replace(SubSeq(s, Len(old) + 1, Len(s)), old, new)
    ELSE <<s[1]>> \o Replace(Tail(s), old, new)

\* release bodies: empty, one line, lines ended by "\n" and by "\r\n", a
\* carriage return on its own, and line ends one after the other
Bodies ==
    { <<>>,
      <<"x">>,
      <<"x", "\n", "y">>,
      <<"x", "\r", "\n", "y", "\n">>,
      <<"\r", "x">>,
      <<"\r", "\r", "\n", "\n">> }

ReleaseUrl == <<"https://github.com/revanced/revanced-patches/releases/tag/v4">>
TagPool == <<"v4.0.0", "v4.1.0", "v4.2.0", "v5.0.0">>
TagNames == {<<TagPool[i]>> : i \in 1..NumTagNames}
PublishedAts == {<<"2023-10-01T12:00:00Z">>}

\* the release-metadata mappings the driver passes: complete ones, and ones
\* that lack a key
Responses ==
    {<<Member("html_url", ReleaseUrl), Member("tag_name", t),
       Member("body", b), Member("published_at", p)>>
        : t \in TagNames, b \in Bodies, p \in PublishedAts}
    \cup {<<Member("html_url", ReleaseUrl), Member("tag_name", t), Member("body", <<"x">>)>>
            : t \in TagNames}
    \cup {<<Member("tag_name", t)>> : t \in TagNames}

ResponseKeys == {"html_url", "tag_name", "body", "published_at"}

\* format_changelog: the entry, or a KeyError when response lacks a key
format_changelog(name, response) ==
    IF ~(ResponseKeys \subseteq DictKeys(response))
    THEN [ok |-> FALSE, entry |-> EmptyDict]
    ELSE [ok |-> TRUE,
          entry |-> <<Member("ResourceName",
                             <<"[", name, "](">> \o DictGet(response, "html_url") \o <<")">>),
                      Member("Version", DictGet(response, "tag_name")),
                      Member("Changelog", DictGet(response, "body")),
                      Member("Published On", DictGet(response, "published_at"))>>]

update_changelog(name, response) ==
    LET app_change_log == format_changelog(name, response) IN
    /\ changelogs' = IF app_change_log.ok
                     THEN DictSet(changelogs, name, app_change_log.entry)
                     ELSE changelogs
    /\ last' = [op |-> "update_changelog", name |-> name, response |-> response,
                replaced |-> (app_change_log.ok /\ DictHas(changelogs, name)
                              /\ DictGet(changelogs, name) # app_change_log.entry),
                outcome |-> IF app_change_log.ok THEN "ok" ELSE "KeyError"]
    /\ UNCHANGED <<changelog_md, updates_json, start, upserted, writers, overlap, probe>>

\* the literal that starts markdown_table: the title row, an empty line, then
\* four spaces, a double quote and the separator row
MarkdownTableHead ==
    <<"| Resource Name | Version | Changelog | Published On |", "\n",
      "\n",
      "    ", "\"", "|---------|---------|-----------|--------------|", "\n">>

RowKeys == {"ResourceName", "Version", "Changelog", "PublishedOn"}

\* one pass of the loop body: the row of app_data
TableRow(app_data) ==
    LET name_link == DictGet(app_data, "ResourceName")
        version == DictGet(app_data, "Version")
        published_at == DictGet(app_data, "PublishedOn")
        changelog == Replace(Replace(DictGet(app_data, "Changelog"),
                                     <<"\r", "\n">>, <<"<br>">>),
                             <<"\n">>, <<"<br>">>)
    IN  <<"| ">> \o name_link \o <<" | ">> \o version \o <<" | ">> \o changelog
        \o <<" | ">> \o published_at \o <<" |", "\n">>

RECURSIVE TableRows(_, _)
\* the loop over changelogs.values(): the rows, or a KeyError at the first
\* entry that lacks a key the body reads
TableRows(values, i) ==
    IF i > Len(values) THEN [ok |-> TRUE, text |-> <<>>]
    ELSE IF ~(RowKeys \subseteq DictKeys(values[i])) THEN [ok |-> FALSE, text |-> <<>>]
    ELSE LET rest == TableRows(values, i + 1) IN
         [ok |-> rest.ok, text |-> TableRow(values[i]) \o rest.text]

write_changelog_to_file ==
    LET rows == TableRows(DictValues(changelogs), 1) IN
    /\ changelog_md' = IF rows.ok
                       THEN WriteText(changelog_md, MarkdownTableHead \o rows.text)
                       ELSE changelog_md
    /\ last' = [op |-> "write_changelog_to_file", before |-> changelog_md,
                outcome |-> IF rows.ok THEN "ok" ELSE "KeyError"]
    /\ UNCHANGED <<changelogs, updates_json, start, upserted, writers, overlap, probe>>

\* Path(changelog_file).unlink(missing_ok=True)
delete_old_changelog ==
    /\ changelog_md' = Missing
    /\ last' = [op |-> "delete_old_changelog", outcome |-> "ok"]
    /\ UNCHANGED <<changelogs, updates_json, start, upserted, writers, overlap, probe>>

\* what changelog.md may hold when the process starts
InitialChangelogFiles == {Missing, File(<<"# changelog of an earlier run", "\n">>)}

InitChangelog ==
    /\ changelogs = EmptyDict
    /\ changelog_md \in InitialChangelogFiles
    /\ last = NoCall
    /\ updates_json = Missing
    /\ start = Missing
    /\ upserted = [n \in Names |-> NoApp]
    /\ writers = NoWriters
    /\ overlap = FALSE
    /\ probe = NoProbe

NextChangelog ==
    \/ \E name \in Names, response \in Responses : update_changelog(name, response)
    \/ write_changelog_to_file
    \/ delete_old_changelog

SpecChangelog == InitChangelog /\ [][NextChangelog]_vars

-----------------------------------------------------------------------------
(* Properties of the changelog aggregator (SpecChangelog) *)

\* the entry the specification describes for a call record(name, response)
EntryOf(name, response) ==
    <<Member("ResourceName", <<"[", name, "](">> \o DictGet(response, "html_url") \o <<")">>),
      Member("Version", DictGet(response, "tag_name")),
      Member("Changelog", DictGet(response, "body")),
      Member("Published On", DictGet(response, "published_at"))>>

\* C4: changelogs never holds two entries of one name, and a call of
\* update_changelog(name, response) that returns leaves under name exactly
\* the entry built from that call, whatever was there before, adds no other
\* name and leaves the entry of every other name as it was.
C4_RecordLastWriteWins ==
    /\ [](UniqueKeys(changelogs))
    /\ [][(last'.op = "update_changelog" /\ last'.outcome = "ok") =>
            /\ DictHas(changelogs', last'.name)
            /\ DictGet(changelogs', last'.name) = EntryOf(last'.name, last'.response)
            /\ DictKeys(changelogs') = DictKeys(changelogs) \cup {last'.name}
            /\ \A k \in DictKeys(changelogs) \ {last'.name} :
                 DictGet(changelogs', k) = DictGet(changelogs, k)]_vars

\* a name was recorded again with other metadata while another name was held
C4_Witness ==
    /\ last.op = "update_changelog" /\ last.outcome = "ok" /\ last.replaced
    /\ Len(changelogs) = 2
    /\ changelogs[1].key = last.name

\* the header the specification asks for: the title row and the separator row
CleanTableHead ==
    <<"| Resource Name | Version | Changelog | Published On |", "\n",
      "|---------|---------|-----------|--------------|", "\n">>

RECURSIVE ExpectedRows(_, _)
\* one row per entry, in the order of the mapping: name link, version and
\* publish time as recorded, the body with its line ends replaced
ExpectedRows(d, i) ==
    IF i > Len(d) THEN <<>>
    ELSE LET e == d[i].val IN
         <<"| ">> \o DictGet(e, "ResourceName") \o <<" | ">> \o DictGet(e, "Version")
         \o <<" | ">>
         \o Replace(Replace(DictGet(e, "Changelog"), <<"\r", "\n">>, <<"<br>">>),
                    <<"\n">>, <<"<br>">>)
         \o <<" | ">> \o DictGet(e, "Published On") \o <<" |", "\n">>
         \o ExpectedRows(d, i + 1)

\* C1: a call of write_changelog_to_file after any calls of update_changelog
\* completes and leaves in the file, after the header, one row per recorded
\* name in first-recorded order, with name link, version and publish time
\* unaltered and the line ends of the body replaced by <br>.
C1_FlushWritesOneRowPerName ==
    last.op = "write_changelog_to_file" =>
        /\ last.outcome = "ok"
        /\ changelog_md.exists
        /\ \E head \in {MarkdownTableHead, CleanTableHead} :
             changelog_md.text = head \o ExpectedRows(changelogs, 1)

\* C6: a call of write_changelog_to_file that completes leaves a file whose
\* text is the two-line header followed by the rows of the mapping and
\* nothing of what the file held before; with an empty mapping the file is
\* the two-line header alone.
C6_FlushOverwritesWithCleanHeader ==
    (last.op = "write_changelog_to_file" /\ last.outcome = "ok") =>
        /\ changelog_md.exists
        /\ changelog_md.text = CleanTableHead \o ExpectedRows(changelogs, 1)

-----------------------------------------------------------------------------
(* save_patch_info under concurrent callers: the load (with the assignment  *)
(* to the loaded dict) and the write are two steps, and nothing locks the   *)
(* file between them                                                        *)

Writers == {"w1", "w2"}

Idle == [pc |-> "idle", app |-> NoApp, old_version |-> NoValue]

\* another caller is inside its call: it has loaded and not yet written
OtherInside(w) == \E o \in Writers \ {w} : writers[o].pc = "loaded"

\* lines 212-225: load the file, or fall back to {}, and assign the record
LoadStep(w, app) ==
    /\ writers[w].pc = "idle"
    /\ LET r == OldVersion(updates_json) IN
       writers' = [writers EXCEPT ![w] =
                     IF ~r.caught THEN [pc |-> "raised", app |-> app, old_version |-> NoValue]
                     ELSE IF r.val.kind # "obj"
                     THEN [pc |-> "raised", app |-> app, old_version |-> r.val]
                     ELSE [pc |-> "loaded", app |-> app,
                           old_version |-> SetPatchInfo(r.val, app)]]
    /\ overlap' = (overlap \/ OtherInside(w))
    /\ UNCHANGED <<changelogs, changelog_md, updates_json, last, start, upserted, probe>>

\* line 226: write the serialized dict over the file
WriteStep(w) ==
    /\ writers[w].pc = "loaded"
    /\ updates_json' = WriteText(updates_json, Serialize(writers[w].old_version))
    /\ writers' = [writers EXCEPT ![w].pc = "done"]
    /\ UNCHANGED <<changelogs, changelog_md, last, start, upserted, overlap, probe>>

InitConc ==
    /\ updates_json \in InitialUpdatesFiles
    /\ start = updates_json
    /\ writers = [w \in Writers |-> Idle]
    /\ overlap = FALSE
    /\ upserted = [n \in Names |-> NoApp]
    /\ last = NoCall
    /\ changelogs = EmptyDict
    /\ changelog_md = Missing
    /\ probe = NoProbe

NextConc ==
    \/ \E w \in Writers, app \in Apps : LoadStep(w, app)
    \/ \E w \in Writers : WriteStep(w)

SpecConc == InitConc /\ [][NextConc]_vars

\* the file holds under the name of w's call exactly the record of that call
HoldsRecordOf(w) ==
    LET now == Loads(updates_json.text) IN
    /\ updates_json.exists /\ now.ok /\ now.val.kind = "obj"
    /\ DictHas(now.val.items, writers[w].app.app_name)
    /\ IsRecordOf(DictGet(now.val.items, writers[w].app.app_name), writers[w].app)

BothDone == \A w \in Writers : writers[w].pc = "done"

DifferentNames == writers["w1"].app.app_name # writers["w2"].app.app_name

\* C10: when two callers have saved different applications and both calls
\* have completed, the file lacks the record of one of them only if one
\* caller loaded the file while the other was between its load and its
\* write; callers that run one after the other lose nothing.
C10_LostUpdateOnlyWhenInterleaved ==
    (BothDone /\ DifferentNames /\ ~overlap) => \A w \in Writers : HoldsRecordOf(w)

\* both calls completed and the record of one of the two is not in the file
C10_Witness ==
    /\ BothDone /\ DifferentNames /\ overlap
    /\ \E w \in Writers : ~HoldsRecordOf(w)

-----------------------------------------------------------------------------
(* handle_request_response and apkmirror_status_check *)

\* src.downloader.utils.status_code_200
status_code_200 == 200

\* src.exceptions.ScrapingError(msg, url=url): carries the message and the url
ScrapingError(msg, url) == [type |-> "ScrapingError", message |-> msg, url |-> url]

NoError == [type |-> "none", message |-> <<>>, url |-> ""]

StatusCodes == {200, 201, 204, 301, 403, 404, 429, 500}

\* response bodies: two JSON objects, plain text, nothing
ResponseTexts ==
    { <<Raw("{"), Lit("data"), Raw(":"), Raw("["), Raw("]"), Raw("}")>>,
      <<Raw("{"), Lit("error"), Raw(":"), Lit("forbidden"), Raw("}")>>,
      <<Raw("forbidden")>>,
      <<>> }

HttpResponses == {[status_code |-> c, text |-> t] : c \in StatusCodes, t \in ResponseTexts}

\* src.downloader.sources.APK_MIRROR_APK_CHECK
APK_MIRROR_APK_CHECK == "https://www.apkmirror.com/wp-json/apkm/v1/app_exists/"

RequestUrls == {"https://mirror.example/check", APK_MIRROR_APK_CHECK}

PackageNames == {"com.google.android.youtube", "com.google.android.apps.youtube.music"}

\* a test that lets every status below 400 pass
ResponseNotOkFrom400(response_code) == response_code >= 400

\* the test of line 124
ResponseNotOk(response_code) == response_code # status_code_200

handle_request_response(response, url) ==
    LET response_code == response.status_code
        msg == <<Raw("Unable to downloaded assets. Reason - ")>> \o response.text
    IN
    /\ last' = [op |-> "handle_request_response", response |-> response, url |-> url,
                outcome |-> IF ResponseNotOk(response_code) THEN "ScrapingError" ELSE "ok",
                error |-> IF ResponseNotOk(response_code)
                          THEN ScrapingError(msg, url) ELSE NoError]
    /\ UNCHANGED <<changelogs, changelog_md, updates_json, start, upserted,
                   writers, overlap, probe>>

\* requests.post(...) answers with response; the function returns
\* response.json() without looking at the status
apkmirror_status_check(package_name, response) ==
    LET body == Obj(<<Member("pnames", Arr(<<Str(package_name)>>))>>)
        parsed == Loads(response.text)
    IN
    /\ last' = [op |-> "apkmirror_status_check", package_name |-> package_name,
                request |-> [url |-> APK_MIRROR_APK_CHECK, json |-> body],
                response |-> response,
                outcome |-> IF parsed.ok THEN "ok" ELSE "JSONDecodeError",
                returned |-> parsed.val]
    /\ UNCHANGED <<changelogs, changelog_md, updates_json, start, upserted,
                   writers, overlap, probe>>

InitHttp ==
    /\ last = NoCall
    /\ changelogs = EmptyDict
    /\ changelog_md = Missing
    /\ updates_json = Missing
    /\ start = Missing
    /\ upserted = [n \in Names |-> NoApp]
    /\ writers = NoWriters
    /\ overlap = FALSE
    /\ probe = NoProbe

NextHttp ==
    \/ \E response \in HttpResponses, url \in RequestUrls :
         handle_request_response(response, url)
    \/ \E package_name \in PackageNames, response \in HttpResponses :
         apkmirror_status_check(package_name, response)

SpecHttp == InitHttp /\ [][NextHttp]_vars

\* text occurs in msg
Contains(msg, text) ==
    \E i \in 1..(Len(msg) - Len(text) + 1) : SubSeq(msg, i, i + Len(text) - 1) = text

\* C7: handle_request_response raises a ScrapingError exactly when the status
\* code is not 200; the error's message holds the response text and its url
\* is the url of the call; with status 200 the call returns and raises
\* nothing.
C7_RaisesIffNot200 ==
    last.op = "handle_request_response" =>
        /\ (last.outcome = "ScrapingError") <=> (last.response.status_code # 200)
        /\ last.outcome \in {"ScrapingError", "ok"}
        /\ last.outcome = "ScrapingError" =>
             /\ last.error.type = "ScrapingError"
             /\ Contains(last.error.message, last.response.text)
             /\ last.error.url = last.url
        /\ last.response.status_code = 200 => last.error = NoError

\* the response 403 "forbidden" to https://mirror.example/check was refused
C7_Witness ==
    /\ last.op = "handle_request_response"
    /\ last.response = [status_code |-> 403, text |-> <<Raw("forbidden")>>]
    /\ last.url = "https://mirror.example/check"
    /\ last.outcome = "ScrapingError"
    /\ last.error.url = "https://mirror.example/check"

\* C8: apkmirror_status_check fails for every response whose status is not
\* 200 and returns nothing then; only with status 200 does it return the
\* parsed body.
C8_MirrorCallFailsUnless200 ==
    last.op = "apkmirror_status_check" =>
        /\ last.response.status_code # 200 =>
             (last.outcome # "ok" /\ last.returned = NoValue)
        /\ last.outcome = "ok" =>
             (last.response.status_code = 200
              /\ last.returned = Loads(last.response.text).val)

-----------------------------------------------------------------------------
(* check_java and _check_version.  The output of `java -version` is a string *)
(* of atoms; the digits of a version are atoms of one character each.       *)

DigitChar == <<"0", "1", "2", "3", "4", "5", "6", "7", "8", "9">>

RECURSIVE Digits(_)
\* the decimal digits of n
Digits(n) == IF n < 10 THEN <<DigitChar[n + 1]>>
             ELSE Digits(n \div 10) \o <<DigitChar[(n % 10) + 1]>>

VersionText(v) == Digits(v[1]) \o <<".">> \o Digits(v[2]) \o <<".">> \o Digits(v[3])

\* what a JDK prints for -version: the version line, with the release date
\* when the JDK prints one, then the runtime line
JavaVersionOutput(v, marker, dated) ==
    <<"o", "penjdk version \"">> \o VersionText(v) \o <<"\"">>
    \o (IF dated THEN <<" ">> \o Digits(2023) \o <<"-">> \o Digits(10) \o <<"-">> \o Digits(17)
        ELSE <<>>)
    \o <<"\n">>
    \o (IF marker
        THEN <<"OpenJDK ", "Runtime Environment", " (build ">> \o VersionText(v) \o <<")">>
        ELSE <<"OpenJDK 64-Bit Server VM (build ">> \o VersionText(v) \o <<")">>)
    \o <<"\n">>

JavaVersions == {<<major, 0, patch>> : major \in {10, 11, 17, 20, 21}, patch \in {0, 2, 17, 20}}

\* what running ["java", "-version"] can do: no such program, or an exit
\* status and an output
Probes ==
    {[installed |-> FALSE, returncode |-> 0, version |-> <<0, 0, 0>>, marker |-> FALSE,
      dated |-> FALSE, output |-> <<>>]}
    \cup {[installed |-> TRUE, returncode |-> rc, version |-> v, marker |-> m, dated |-> d,
           output |-> JavaVersionOutput(v, m, d)]
            : rc \in {0, 1}, v \in JavaVersions, m \in BOOLEAN, d \in BOOLEAN}

\* needle in output, for a needle of one atom or more
In(needle, output) ==
    \E i \in 1..(Len(output) - Len(needle) + 1) :
        SubSeq(output, i, i + Len(needle) - 1) = needle

\* _check_version: TRUE when it raises CalledProcessError
CheckVersionRaises(output) ==
    \/ ~In(<<"Runtime Environment">>, output)
    \/ (~In(<<"1", "7">>, output) /\ ~In(<<"2", "0">>, output))

\* jd[1:-1]
Slice1ToLast(jd) == SubSeq(jd, 2, Len(jd) - 1)

\* the status a process that calls sys.exit(code) ends with
ExitStatus(code) == code % 256

check_java ==
    /\ last.op = "none"
    /\ last' =
         IF ~probe.installed
         THEN \* check_output raises FileNotFoundError, which no clause catches
              [op |-> "check_java", outcome |-> "FileNotFoundError", logged |-> "",
               status |-> 0]
         ELSE IF probe.returncode # 0 \/ CheckVersionRaises(Slice1ToLast(probe.output))
         THEN [op |-> "check_java", outcome |-> "exit",
               logged |-> "error: Java>= 17 must be installed",
               status |-> ExitStatus(-1)]
         ELSE [op |-> "check_java", outcome |-> "ok",
               logged |-> "debug: Cool!! Java is available", status |-> 0]
    /\ UNCHANGED <<changelogs, changelog_md, updates_json, start, upserted,
                   writers, overlap, probe>>

InitJava ==
    /\ probe \in Probes
    /\ last = NoCall
    /\ changelogs = EmptyDict
    /\ changelog_md = Missing
    /\ updates_json = Missing
    /\ start = Missing
    /\ upserted = [n \in Names |-> NoApp]
    /\ writers = NoWriters
    /\ overlap = FALSE

NextJava == check_java

SpecJava == InitJava /\ [][NextJava]_vars

\* C9: check_java returns only when the probe exits with status zero and its
\* output holds the runtime marker and a major version of 17 or 20; in every
\* other case (another output, a non-zero exit, no Java runtime) it logs an
\* error and ends the process with a nonzero status, and raises nothing.
C9_JavaGateAcceptsOnly17Or20 ==
    last.op = "check_java" =>
        IF probe.installed /\ probe.returncode = 0 /\ probe.marker
           /\ probe.version[1] \in {17, 20}
        THEN last.outcome = "ok"
        ELSE /\ last.outcome = "exit"
             /\ last.status # 0
             /\ last.logged = "error: Java>= 17 must be installed"

=============================================================================
